---- MODULE Spec2Model ----
(***************************************************************************)
(* Command dispatch (RemoteCommandMockService + CommandQueue) and charging *)
(* simulation (ChargingMockService) over one shared VehicleState.          *)
(*                                                                         *)
(* Units: state of charge is kept in 1/10000 of a percent, power in watts, *)
(* the 10-minute drain estimate in 1/100 of a percent, time in ms.         *)
(***************************************************************************)
EXTENDS Integers, Sequences, FiniteSets, TLC

VARIABLES
    vehicle_state,      \* the shared VehicleState
    commands,           \* RemoteCommand objects created so far, by id
    queue,              \* CommandQueue._queue (ids, head first)
    executing,          \* CommandQueue._executing (id or NoCommand)
    command_history,    \* RemoteCommandMockService._command_history (ids)
    thread,             \* request threads inside send_command
    now,                \* datetime.now(), a logical clock
    raised,             \* message of the exception the last step raised, if any
    sessions,           \* ChargingSession objects created so far, by id
    current_session,    \* ChargingMockService.current_session (id or NoSession)
    charging_thread,    \* ChargingMockService._charging_thread (loop id or NoLoop)
    stop_charging_flag, \* ChargingMockService._stop_charging_flag
    charge_limit,       \* ChargingMockService._charge_limit
    sessions_file,      \* charging_sessions.json: the archived sessions
    loops,              \* the background threads running _simulate_charging
    client              \* request threads inside the charging service

cmdVars == <<commands, queue, executing, command_history, thread, now>>
chgVars == <<sessions, current_session, charging_thread, stop_charging_flag,
             charge_limit, sessions_file, loops, client>>
vars == <<vehicle_state, raised, cmdVars, chgVars>>

\* ---------------------------------------------------------------- bounds
MaxCmds == 2
NumThreads == 2
MaxSessions == 2
NumClients == 2
MaxChgCmds == 1
MaxClock == 4
MaxTicks == 2
MaxChgSessions == 1
MaxQueued == 3

Threads == 1..NumThreads
Clients == 1..NumClients

\* ---------------------------------------------------------------- values
NoCommand == 0
NoTime == 0 - 1
NoError == "None"

Percent(p) == p * 10000

min_delay_ms == 1000
max_delay_ms == 3000
Delays == {min_delay_ms, max_delay_ms}
TimeoutMs == 5000

SeatHeatLevel == {"off", "low", "medium", "high"}

Min(a, b) == IF a < b THEN a ELSE b
Max(a, b) == IF a > b THEN a ELSE b
Abs(a) == IF a < 0 THEN 0 - a ELSE a

\* ---------------------------------------------------------------- VehicleState
ClimateSettings == [is_active |-> FALSE, target_temp_celsius |-> 21,
                    front_left_seat_heat |-> "off", front_right_seat_heat |-> "off",
                    rear_seat_heat |-> "off", steering_wheel_heat |-> FALSE,
                    front_defrost |-> FALSE, rear_defrost |-> FALSE]

TrunkStatus == [front_trunk_open |-> FALSE, rear_trunk_open |-> FALSE]

VehicleState(soc, lock, speed, plugged) ==
    [battery_soc |-> soc, lock_status |-> lock, cabin_temp_celsius |-> 20,
     climate_on |-> FALSE, last_updated |-> 0, lock_timestamp |-> 0,
     climate_settings |-> ClimateSettings, trunk_status |-> TrunkStatus,
     is_plugged_in |-> plugged, speed_mph |-> speed]

\* ---------------------------------------------------------------- RemoteCommand
RemoteCommand(type, params) ==
    [command_type |-> type, parameters |-> params, status |-> "PENDING",
     response_time |-> NoTime, error_message |-> NoError]

mark_success(c, response_time_ms) ==
    [c EXCEPT !.status = "SUCCESS", !.response_time = response_time_ms,
              !.error_message = NoError]

mark_failed(c, msg, response_time_ms) ==
    [c EXCEPT !.status = "FAILED", !.error_message = msg,
              !.response_time = IF response_time_ms # NoTime THEN response_time_ms ELSE @]

mark_timeout(c, timeout_ms) ==
    [c EXCEPT !.status = "TIMEOUT", !.response_time = timeout_ms,
              !.error_message = "Command timed out after " \o ToString(timeout_ms) \o "ms"]

Terminal(s) == s \in {"SUCCESS", "FAILED", "TIMEOUT"}

\* ---------------------------------------------------------------- ClimateSettings methods
TempInRange(t) == 15 <= t /\ t <= 28

\* the message of set_temperature's ValueError (degree signs left out)
TempError(t) == "Temperature " \o ToString(t) \o "C out of range (15-28C)"

\* estimate_battery_drain_per_10min, in 1/100 percent
estimate_battery_drain_per_10min(cs, current_temp) ==
    IF ~cs.is_active THEN 0
    ELSE LET temp_diff == Abs(cs.target_temp_celsius - current_temp)
             base_drain == Min(temp_diff * 15, 200)
             seat_drain ==
                 (IF cs.front_left_seat_heat # "off" THEN 20 ELSE 0)
               + (IF cs.front_right_seat_heat # "off" THEN 20 ELSE 0)
               + (IF cs.rear_seat_heat # "off" THEN 30 ELSE 0)
               + (IF cs.steering_wheel_heat THEN 15 ELSE 0)
             defrost_drain ==
                 (IF cs.front_defrost THEN 30 ELSE 0)
               + (IF cs.rear_defrost THEN 30 ELSE 0)
         IN base_drain + seat_drain + defrost_drain

\* ---------------------------------------------------------------- _validate_command
\* the battery rule with its threshold included
BatteryTooLow_Inclusive(vs) == vs.battery_soc <= Percent(10)

BatteryTooLow(vs) == vs.battery_soc < Percent(10)

\* the speed rule with a walking-pace allowance
Moving_Over15(vs) == vs.speed_mph > 15

Moving(vs) == vs.speed_mph > 0

\* _validate_command without the rule for UNLOCK
_validate_command_NoUnlockRule(vs, type) ==
    IF type \in {"CLIMATE_ON", "SET_TEMP"} /\ BatteryTooLow(vs)
        THEN "Battery too low (<10%) for climate control"
    ELSE IF type = "CLIMATE_ON" /\ vs.climate_on
        THEN "Climate control is already on"
    ELSE IF type = "CLIMATE_OFF" /\ ~vs.climate_on
        THEN "Climate control is already off"
    ELSE IF type \in {"TRUNK_OPEN", "FRUNK_OPEN"} /\ Moving(vs)
        THEN "Cannot open trunk/frunk while vehicle is moving"
    ELSE IF type = "LOCK" /\ vs.lock_status = "LOCKED"
        THEN "Vehicle is already locked"
    ELSE NoError

\* the message of the ValueError raised, or NoError
_validate_command(vs, type) ==
    IF type \in {"CLIMATE_ON", "SET_TEMP"} /\ BatteryTooLow(vs)
        THEN "Battery too low (<10%) for climate control"
    ELSE IF type = "CLIMATE_ON" /\ vs.climate_on
        THEN "Climate control is already on"
    ELSE IF type = "CLIMATE_OFF" /\ ~vs.climate_on
        THEN "Climate control is already off"
    ELSE IF type \in {"TRUNK_OPEN", "FRUNK_OPEN"} /\ Moving(vs)
        THEN "Cannot open trunk/frunk while vehicle is moving"
    ELSE IF type = "LOCK" /\ vs.lock_status = "LOCKED"
        THEN "Vehicle is already locked"
    ELSE IF type = "UNLOCK" /\ vs.lock_status = "UNLOCKED"
        THEN "Vehicle is already unlocked"
    ELSE NoError

\* ---------------------------------------------------------------- CommandQueue
\* _queue is a sequence of command ids, oldest first
enqueue(q, id) == Append(q, id)

\* dequeue taking the command that was enqueued last
dequeue_LastIn(q) ==
    IF q # <<>> THEN [command |-> q[Len(q)], queue |-> SubSeq(q, 1, Len(q) - 1)]
    ELSE [command |-> NoCommand, queue |-> q]

\* popleft() when the deque is not empty, None otherwise
dequeue(q) ==
    IF q # <<>> THEN [command |-> Head(q), queue |-> Tail(q)]
    ELSE [command |-> NoCommand, queue |-> q]

size(q) == Len(q)

\* ---------------------------------------------------------------- request threads
\* what a frame that has dequeued nothing remembers of VehicleState
NoState == <<>>

\* submitted: `command` of the send_command frame; command, delay_ms:
\* locals of the _execute_next frame; began: the VehicleState the frame's
\* command found when it was dequeued (a history field, read by no action);
\* command_id, i: locals of the remove_by_id frame; returned: what the
\* thread's last cancel_command call returned
IdleThread == [pc |-> "idle", submitted |-> NoCommand, command |-> NoCommand,
               delay_ms |-> 0, new_soc |-> 0, began |-> NoState,
               command_id |-> NoCommand, i |-> 0, returned |-> "none"]

Goto(k, label) == [thread EXCEPT ![k].pc = label]

Return(k) == [thread EXCEPT ![k] = IdleThread]

Cmd(k) == commands[thread[k].command]

\* send_command recording the command in the history before it validates it
SendCommand_RecordFirst(k, inp, max) ==
    /\ thread[k].pc = "idle"
    /\ Len(commands) < max
    /\ commands' = Append(commands, RemoteCommand(inp.type, inp.parameters))
    /\ command_history' = command_history \cup {Len(commands) + 1}
    /\ LET err == _validate_command(vehicle_state, inp.type)
           id == Len(commands) + 1
       IN IF err = NoError
          THEN /\ thread' = [thread EXCEPT ![k].pc = "enqueue", ![k].submitted = id]
               /\ raised' = NoError
          ELSE /\ thread' = [thread EXCEPT ![k] = IdleThread]
               /\ raised' = err
    /\ UNCHANGED <<vehicle_state, queue, executing, now, chgVars>>

\* send_command, line 84: the caller builds a RemoteCommand and the service
\* validates it against the current VehicleState
SendCommand(k, inp, max) ==
    /\ thread[k].pc = "idle"
    /\ Len(commands) < max
    /\ commands' = Append(commands, RemoteCommand(inp.type, inp.parameters))
    /\ LET err == _validate_command(vehicle_state, inp.type)
           id == Len(commands) + 1
       IN IF err = NoError
          THEN /\ thread' = [thread EXCEPT ![k].pc = "enqueue", ![k].submitted = id]
               /\ raised' = NoError
          ELSE /\ thread' = Return(k)
               /\ raised' = err
    /\ UNCHANGED <<vehicle_state, queue, executing, command_history, now, chgVars>>

\* send_command, line 84, called again with a command object that already
\* went through the service
Resubmit(k, id) ==
    /\ thread[k].pc = "idle"
    /\ now < MaxClock
    /\ Terminal(commands[id].status)
    /\ LET err == _validate_command(vehicle_state, commands[id].command_type)
       IN IF err = NoError
          THEN /\ thread' = [thread EXCEPT ![k].pc = "enqueue", ![k].submitted = id]
               /\ raised' = NoError
          ELSE /\ thread' = Return(k)
               /\ raised' = err
    /\ UNCHANGED <<vehicle_state, commands, queue, executing, command_history, now, chgVars>>

\* RemoteCommand.mark_timeout, called by the holder of a command that no
\* thread is executing
MarkTimeout(id, timeout_ms) ==
    /\ \A k \in Threads : thread[k].pc = "idle"
    /\ commands[id] # mark_timeout(commands[id], timeout_ms)
    /\ commands' = [commands EXCEPT ![id] = mark_timeout(@, timeout_ms)]
    /\ raised' = NoError
    /\ UNCHANGED <<vehicle_state, queue, executing, command_history, thread, now, chgVars>>

\* send_command, lines 87-88 (nothing reads _command_history in between)
Enqueue(k) ==
    /\ thread[k].pc = "enqueue"
    /\ queue' = enqueue(queue, thread[k].submitted)
    /\ command_history' = command_history \cup {thread[k].submitted}
    /\ thread' = Goto(k, "check_size")
    /\ raised' = NoError
    /\ UNCHANGED <<vehicle_state, commands, executing, now, chgVars>>

\* send_command, lines 91-94
ExecuteIfOnly(k) ==
    /\ thread[k].pc = "check_size"
    /\ thread' = IF size(queue) = 1 THEN Goto(k, "dequeue") ELSE Return(k)
    /\ raised' = NoError
    /\ UNCHANGED <<vehicle_state, commands, queue, executing, command_history, now, chgVars>>

\* _execute_next, lines 158-160
Dequeue(k) ==
    /\ thread[k].pc = "dequeue"
    /\ LET next_command == dequeue(queue)
       IN /\ thread' = IF next_command.command = NoCommand
                        THEN Return(k)
                        ELSE [thread EXCEPT ![k].pc = "set_executing",
                                            ![k].command = next_command.command,
                                            ![k].began = vehicle_state]
          /\ queue' = next_command.queue
    /\ raised' = NoError
    /\ UNCHANGED <<vehicle_state, commands, executing, command_history, now, chgVars>>

\* _execute_next, lines 162-166: the slot is set and the delay drawn; the
\* thread then sleeps at "sample" until one of the next actions
SetExecuting(k, delays) ==
    /\ thread[k].pc = "set_executing"
    /\ executing' = thread[k].command
    /\ \E d \in delays : thread' = [thread EXCEPT ![k].pc = "sample", ![k].delay_ms = d]
    /\ raised' = NoError
    /\ UNCHANGED <<vehicle_state, commands, queue, command_history, now, chgVars>>

\* _execute_next treating the simulated failure as a timeout
SimulatedFailure_TimesOut(k) ==
    /\ thread[k].pc = "sample"
    /\ commands' = [commands EXCEPT ![thread[k].command] =
                        mark_timeout(@, thread[k].delay_ms)]
    /\ thread' = Goto(k, "clear_executing")
    /\ raised' = NoError
    /\ UNCHANGED <<vehicle_state, queue, executing, command_history, now, chgVars>>

\* _execute_next, lines 171-172: random.random() >= success_rate
SimulatedFailure(k) ==
    /\ thread[k].pc = "sample"
    /\ commands' = [commands EXCEPT ![thread[k].command] =
                        mark_failed(@, "Simulated failure", thread[k].delay_ms)]
    /\ thread' = Goto(k, "clear_executing")
    /\ raised' = NoError
    /\ UNCHANGED <<vehicle_state, queue, executing, command_history, now, chgVars>>

\* _execute_command, except handler (lines 268-269)
Except(k, msg) ==
    /\ commands' = [commands EXCEPT ![thread[k].command] =
                        mark_failed(@, msg, thread[k].delay_ms)]
    /\ thread' = Goto(k, "clear_executing")

\* _execute_command with a HONK_FLASH branch that unlocks the vehicle
HonkFlash_Unlocks(k) ==
    /\ vehicle_state' = [vehicle_state EXCEPT !.lock_status = "UNLOCKED"]
    /\ thread' = Goto(k, "finish")
    /\ UNCHANGED commands

\* _execute_command, lines 246-248: the HONK_FLASH branch is `pass`
HonkFlash(k) ==
    /\ thread' = Goto(k, "finish")
    /\ UNCHANGED <<vehicle_state, commands>>

\* _execute_command, the first statement of the branch of the command's type
ExecuteCommand(k) ==
    /\ thread[k].pc = "sample"
    /\ LET c == Cmd(k)
           t == c.command_type
           p == c.parameters
           Has(key) == key \in DOMAIN p
           Get(key, default) == IF Has(key) THEN p[key] ELSE default
       IN
       CASE t = "LOCK" ->
              /\ vehicle_state' = [vehicle_state EXCEPT !.lock_status = "LOCKED"]
              /\ thread' = Goto(k, "lock_timestamp")
              /\ UNCHANGED commands
         [] t = "UNLOCK" ->
              /\ vehicle_state' = [vehicle_state EXCEPT !.lock_status = "UNLOCKED"]
              /\ thread' = Goto(k, "lock_timestamp")
              /\ UNCHANGED commands
         [] t = "CLIMATE_ON" ->
              /\ vehicle_state' = [vehicle_state EXCEPT !.climate_on = TRUE]
              /\ thread' = Goto(k, "climate_active")
              /\ UNCHANGED commands
         [] t = "CLIMATE_OFF" ->
              /\ vehicle_state' = [vehicle_state EXCEPT !.climate_on = FALSE]
              /\ thread' = Goto(k, "climate_active")
              /\ UNCHANGED commands
         [] t = "SET_TEMP" ->
              IF Has("target_temp") /\ ~TempInRange(p["target_temp"])
              THEN /\ Except(k, TempError(p["target_temp"]))
                   /\ UNCHANGED vehicle_state
              ELSE /\ vehicle_state' =
                        IF Has("target_temp")
                        THEN [vehicle_state EXCEPT
                                !.climate_settings.target_temp_celsius = p["target_temp"]]
                        ELSE vehicle_state
                   /\ thread' = Goto(k, "finish")
                   /\ UNCHANGED commands
         [] t = "SEAT_HEAT" ->
              LET seat == Get("seat", "front_left")
                  level == Get("level", "off")
              IN IF level \notin SeatHeatLevel
                 THEN /\ Except(k, "not a valid SeatHeatLevel")
                      /\ UNCHANGED vehicle_state
                 ELSE /\ vehicle_state' =
                           IF seat = "front_left"
                           THEN [vehicle_state EXCEPT !.climate_settings.front_left_seat_heat = level]
                           ELSE IF seat = "front_right"
                           THEN [vehicle_state EXCEPT !.climate_settings.front_right_seat_heat = level]
                           ELSE IF seat = "rear"
                           THEN [vehicle_state EXCEPT !.climate_settings.rear_seat_heat = level]
                           ELSE vehicle_state
                      /\ thread' = Goto(k, "finish")
                      /\ UNCHANGED commands
         [] t = "STEERING_HEAT" ->
              /\ vehicle_state' = [vehicle_state EXCEPT
                    !.climate_settings.steering_wheel_heat = Get("enabled", FALSE)]
              /\ thread' = Goto(k, "finish")
              /\ UNCHANGED commands
         [] t = "DEFROST" ->
              LET position == Get("position", "front")
                  enabled == Get("enabled", FALSE)
              IN /\ vehicle_state' =
                      IF position = "front"
                      THEN [vehicle_state EXCEPT !.climate_settings.front_defrost = enabled]
                      ELSE IF position = "rear"
                      THEN [vehicle_state EXCEPT !.climate_settings.rear_defrost = enabled]
                      ELSE vehicle_state
                 /\ thread' = Goto(k, "finish")
                 /\ UNCHANGED commands
         [] t = "TRUNK_OPEN" ->
              /\ vehicle_state' = [vehicle_state EXCEPT !.trunk_status.rear_trunk_open = TRUE]
              /\ thread' = Goto(k, "finish")
              /\ UNCHANGED commands
         [] t = "FRUNK_OPEN" ->
              /\ vehicle_state' = [vehicle_state EXCEPT !.trunk_status.front_trunk_open = TRUE]
              /\ thread' = Goto(k, "finish")
              /\ UNCHANGED commands
         [] t = "HONK_FLASH" -> HonkFlash(k)
    /\ raised' = NoError
    /\ UNCHANGED <<queue, executing, command_history, now, chgVars>>

\* _execute_command, lines 196 and 200
SetLockTimestamp(k) ==
    /\ thread[k].pc = "lock_timestamp"
    /\ vehicle_state' = [vehicle_state EXCEPT !.lock_timestamp = now]
    /\ now' = now + 1
    /\ thread' = Goto(k, "finish")
    /\ raised' = NoError
    /\ UNCHANGED <<commands, queue, executing, command_history, chgVars>>

\* _execute_command, lines 204 and 211
SetClimateActive(k) ==
    /\ thread[k].pc = "climate_active"
    /\ vehicle_state' = [vehicle_state EXCEPT
            !.climate_settings.is_active = (Cmd(k).command_type = "CLIMATE_ON")]
    /\ thread' = Goto(k, IF Cmd(k).command_type = "CLIMATE_ON" THEN "climate_temp" ELSE "finish")
    /\ raised' = NoError
    /\ UNCHANGED <<commands, queue, executing, command_history, now, chgVars>>

\* _execute_command, lines 205-207
SetClimateTemp(k) ==
    /\ thread[k].pc = "climate_temp"
    /\ LET p == Cmd(k).parameters
       IN IF "target_temp" \in DOMAIN p /\ ~TempInRange(p["target_temp"])
          THEN /\ Except(k, TempError(p["target_temp"]))
               /\ UNCHANGED vehicle_state
          ELSE /\ vehicle_state' =
                    IF "target_temp" \in DOMAIN p
                    THEN [vehicle_state EXCEPT
                            !.climate_settings.target_temp_celsius = p["target_temp"]]
                    ELSE vehicle_state
               /\ thread' = Goto(k, "drain_read")
               /\ UNCHANGED commands
    /\ raised' = NoError
    /\ UNCHANGED <<queue, executing, command_history, now, chgVars>>

\* simulated_drain taking the estimate as a drain per minute
SimulatedDrain_PerMinute(vs, delay) ==
    (estimate_battery_drain_per_10min(vs.climate_settings, vs.cabin_temp_celsius)
        * 100 * delay) \div 60000

\* simulated_drain of lines 252-256, in 1/10000 percent
SimulatedDrain(vs, delay) ==
    (estimate_battery_drain_per_10min(vs.climate_settings, vs.cabin_temp_celsius)
        * 100 * delay) \div 600000

\* the value of lines 257-260 before it is stored
DrainedSoc(soc, drain) == Max(0, soc - drain)

\* _execute_command, lines 252-260: the right-hand side is evaluated
DrainRead(k) ==
    /\ thread[k].pc = "drain_read"
    /\ thread' = [thread EXCEPT
            ![k].pc = "drain_write",
            ![k].new_soc = DrainedSoc(vehicle_state.battery_soc,
                                      SimulatedDrain(vehicle_state, thread[k].delay_ms))]
    /\ raised' = NoError
    /\ UNCHANGED <<vehicle_state, commands, queue, executing, command_history, now, chgVars>>

\* _execute_command, line 257: the store to battery_soc
DrainWrite(k) ==
    /\ thread[k].pc = "drain_write"
    /\ vehicle_state' = [vehicle_state EXCEPT !.battery_soc = thread[k].new_soc]
    /\ thread' = Goto(k, "finish")
    /\ raised' = NoError
    /\ UNCHANGED <<commands, queue, executing, command_history, now, chgVars>>

\* _execute_command stamping lock_timestamp together with last_updated
FinishCommand_StampsLock(k) ==
    /\ thread[k].pc = "finish"
    /\ vehicle_state' = [vehicle_state EXCEPT !.last_updated = now, !.lock_timestamp = now]
    /\ now' = now + 1
    /\ commands' = [commands EXCEPT ![thread[k].command] =
                        mark_success(@, thread[k].delay_ms)]
    /\ thread' = Goto(k, "clear_executing")
    /\ raised' = NoError
    /\ UNCHANGED <<queue, executing, command_history, chgVars>>

\* _execute_command, lines 263-266
FinishCommand(k) ==
    /\ thread[k].pc = "finish"
    /\ vehicle_state' = [vehicle_state EXCEPT !.last_updated = now]
    /\ now' = now + 1
    /\ commands' = [commands EXCEPT ![thread[k].command] =
                        mark_success(@, thread[k].delay_ms)]
    /\ thread' = Goto(k, "clear_executing")
    /\ raised' = NoError
    /\ UNCHANGED <<queue, executing, command_history, chgVars>>

\* _execute_next leaving the executing slot as it is
ClearExecuting_KeepsSlot(k) ==
    /\ thread[k].pc = "clear_executing"
    /\ thread' = Goto(k, "next")
    /\ raised' = NoError
    /\ UNCHANGED <<vehicle_state, commands, queue, executing, command_history, now, chgVars>>

\* _execute_next, lines 174-177
ClearExecuting(k) ==
    /\ thread[k].pc = "clear_executing"
    /\ executing' = NoCommand
    /\ thread' = Goto(k, "next")
    /\ raised' = NoError
    /\ UNCHANGED <<vehicle_state, commands, queue, command_history, now, chgVars>>

\* _execute_next, lines 180-181
ExecuteNext(k) ==
    /\ thread[k].pc = "next"
    /\ thread' = IF queue # <<>> THEN Goto(k, "dequeue") ELSE Return(k)
    /\ raised' = NoError
    /\ UNCHANGED <<vehicle_state, commands, queue, executing, command_history, now, chgVars>>

\* CommandQueue.remove_by_id
RemoveAt(q, i) == SubSeq(q, 1, i - 1) \o SubSeq(q, i + 1, Len(q))

remove_by_id(q, ex, id) ==
    IF ex # NoCommand /\ ex = id THEN [removed |-> FALSE, queue |-> q]
    ELSE IF \E i \in 1..Len(q) : q[i] = id
         THEN [removed |-> TRUE,
               queue |-> RemoveAt(q, CHOOSE i \in 1..Len(q) :
                                        q[i] = id /\ \A j \in 1..(i - 1) : q[j] # id)]
         ELSE [removed |-> FALSE, queue |-> q]

\* the index at which the scan of remove_by_id (lines 137-138) stops, or 0
FindIndex(q, id) ==
    IF \E i \in 1..Len(q) : q[i] = id
    THEN CHOOSE i \in 1..Len(q) : q[i] = id /\ \A j \in 1..(i - 1) : q[j] # id
    ELSE 0

\* the frame of a cancel_command call that has returned
Returned(k, id, value) ==
    [thread EXCEPT ![k] = [IdleThread EXCEPT !.command_id = id, !.returned = value]]

\* cancel_command clearing the executing slot when asked to cancel the
\* executing command
CancelCommand_ClearsSlot(k, id) ==
    /\ thread[k].pc = "idle"
    /\ IF executing # NoCommand /\ executing = id
         THEN /\ thread' = Returned(k, id, "True")
              /\ executing' = NoCommand
         ELSE /\ thread' = IF FindIndex(queue, id) # 0
                           THEN [thread EXCEPT ![k] = [IdleThread EXCEPT
                                    !.pc = "cancel_del", !.command_id = id,
                                    !.i = FindIndex(queue, id)]]
                           ELSE Returned(k, id, "False")
              /\ UNCHANGED executing
    /\ raised' = NoError
    /\ UNCHANGED <<vehicle_state, commands, queue, command_history, now, chgVars>>

\* cancel_command (line 118) into remove_by_id, lines 134-138: the test of the
\* executing slot and the scan of the waiting list
CancelCommand(k, id) ==
    /\ thread[k].pc = "idle"
    /\ thread' = IF executing # NoCommand /\ executing = id
                   THEN Returned(k, id, "False")
                 ELSE IF FindIndex(queue, id) # 0
                   THEN [thread EXCEPT ![k] = [IdleThread EXCEPT
                            !.pc = "cancel_del", !.command_id = id,
                            !.i = FindIndex(queue, id)]]
                 ELSE Returned(k, id, "False")
    /\ raised' = NoError
    /\ UNCHANGED <<vehicle_state, commands, queue, executing, command_history, now, chgVars>>

\* remove_by_id, lines 139-140: del self._queue[i] with the index the scan
\* found, on the waiting list as it is now
CancelDelete(k) ==
    /\ thread[k].pc = "cancel_del"
    /\ IF thread[k].i <= Len(queue)
         THEN /\ queue' = RemoveAt(queue, thread[k].i)
              /\ thread' = Returned(k, thread[k].command_id, "True")
              /\ raised' = NoError
         ELSE /\ queue' = queue
              /\ thread' = Returned(k, thread[k].command_id, "none")
              /\ raised' = "IndexError"
    /\ UNCHANGED <<vehicle_state, commands, executing, command_history, now, chgVars>>

\* a caller that holds a CommandQueue of its own and calls its methods one
\* after the other (src/tests/unit/test_command_queue.py): enqueue of a new
\* command
QueueEnqueue(k, inp, max) ==
    /\ thread[k].pc = "idle"
    /\ Len(commands) < max
    /\ commands' = Append(commands, RemoteCommand(inp.type, inp.parameters))
    /\ queue' = enqueue(queue, Len(commands) + 1)
    /\ thread' = Return(k)
    /\ raised' = NoError
    /\ UNCHANGED <<vehicle_state, executing, command_history, now, chgVars>>

\* result = queue.dequeue(); the frame keeps the result
QueueDequeue(k) ==
    /\ thread[k].pc = "idle"
    /\ LET result == dequeue(queue)
       IN /\ thread' = [thread EXCEPT ![k] = [IdleThread EXCEPT
                            !.command = result.command,
                            !.returned = IF result.command = NoCommand
                                         THEN "None" ELSE "command"]]
          /\ queue' = result.queue
    /\ raised' = NoError
    /\ UNCHANGED <<vehicle_state, commands, executing, command_history, now, chgVars>>

\* queue.set_executing(command), with a command or with None
QueueSetExecuting(k, command) ==
    /\ thread[k].pc = "idle"
    /\ executing' = command
    /\ thread' = Return(k)
    /\ raised' = NoError
    /\ UNCHANGED <<vehicle_state, commands, queue, command_history, now, chgVars>>

\* ---------------------------------------------------------------- ChargingMockService
NoSession == 0
NoLoop == 0

battery_capacity_kwh == 82
max_charging_rate_kw == 250
l2_charging_rate_kw == 11
HistoryCap == 50
DefaultChargeLimit == Percent(80)

CHARGING_LOCATIONS ==
    {"Home Charger", "Supercharger Downtown", "Office Parking",
     "Supercharger Highway 101", "Shopping Mall Charger"}

\* "Supercharger" in location
IsSupercharger(location) ==
    location \in {"Supercharger Downtown", "Supercharger Highway 101"}

\* the locations random.choice is let draw: one of each kind
Locations == {l \in CHARGING_LOCATIONS : l \in {"Home Charger", "Supercharger Downtown"}}

\* max_rate of lines 96 and 247, in watts
MaxRate(location) ==
    IF IsSupercharger(location) THEN max_charging_rate_kw * 1000
    ELSE l2_charging_rate_kw * 1000

\* _calculate_charging_rate with each breakpoint in the band below it
_calculate_charging_rate_BreakpointsBelow(current_soc, max_rate) ==
    IF current_soc <= Percent(20) THEN max_rate
    ELSE IF current_soc <= Percent(80) THEN (max_rate * 95) \div 100
    ELSE IF current_soc <= Percent(90) THEN (max_rate * 6) \div 10
    ELSE (max_rate * 3) \div 10

\* _calculate_charging_rate, in watts
_calculate_charging_rate(current_soc, max_rate) ==
    IF current_soc < Percent(20) THEN max_rate
    ELSE IF current_soc < Percent(80) THEN (max_rate * 95) \div 100
    ELSE IF current_soc < Percent(90) THEN (max_rate * 6) \div 10
    ELSE (max_rate * 3) \div 10

\* amperage of lines 111 and 252, in milliamperes
Amperage(rate, voltage) == (rate * 1000) \div voltage

\* soc_increase_per_second of lines 255-256, in 1/10000 percent
SocIncrease(rate) == (rate * 1000) \div (3600 * battery_capacity_kwh)

\* new_soc without the min() against the target
NewSoc_Unclamped(target_soc, soc, increase) == soc + increase

\* new_soc of line 259
NewSoc(target_soc, soc, increase) == Min(target_soc, soc + increase)

\* cost of line 265 in 1/1000000 dollar, from the energy in watt-seconds
Cost(energy) == (energy * 35) \div 360

\* ChargingSession as start_charging builds it (lines 99-111)
ChargingSession(soc, target, location) ==
    LET rate == _calculate_charging_rate(soc, MaxRate(location))
        voltage == IF IsSupercharger(location) THEN 400 ELSE 240
    IN [start_time |-> now, start_soc |-> soc, current_soc |-> soc,
        target_soc |-> target, charging_rate_kw |-> rate,
        voltage |-> voltage, amperage |-> Amperage(rate, voltage),
        location |-> location, end_time |-> NoTime, energy_added_kwh |-> 0,
        cost |-> 0, is_active |-> TRUE]

\* ChargingSession.__post_init__ (the rate, voltage and amperage built by
\* start_charging are never negative)
ValidSession(s) ==
    /\ 0 <= s.start_soc /\ s.start_soc <= Percent(100)
    /\ 0 <= s.current_soc /\ s.current_soc <= Percent(100)
    /\ 0 <= s.target_soc /\ s.target_soc <= Percent(100)

\* _save_session, lines 398-405: the list read from the file, with the
\* session appended, cut to the last 50
_save_session(file, id) ==
    LET appended == Append(file, id)
    IN IF Len(appended) > HistoryCap
       THEN SubSeq(appended, Len(appended) - HistoryCap + 1, Len(appended))
       ELSE appended

SessionActive == current_session # NoSession /\ sessions[current_session].is_active

\* target, limit: arguments of the call in progress; data: the local of
\* _save_session; session: the session that was active when the
\* stop_charging call in progress was made (a history field, read by no
\* action)
IdleClient ==
    [pc |-> "idle", target |-> 0, limit |-> 0, data |-> <<>>, session |-> NoSession]

\* ticks counts the loop's iterations (a bound of the model, not of the code);
\* stopped: a stop_charging call has returned while the loop was alive (a
\* history field, read by no action)
NewLoop == [pc |-> "loop", rate |-> 0, new_soc |-> 0, data |-> <<>>, ticks |-> 0,
            stopped |-> FALSE]

ClientGoto(c, label) == [client EXCEPT ![c].pc = label]

ClientReturn(c) == [client EXCEPT ![c] = IdleClient]

ClientRaise(c, msg) == client' = ClientReturn(c) /\ raised' = msg

ClientOk(c, next) == client' = next /\ raised' = NoError

LoopAlive(l) == IF l = NoLoop THEN FALSE ELSE loops[l].pc \notin {"exited", "crashed"}

\* start_charging, lines 87-91: the checks of target_soc
ValidateTarget(c, target_soc) ==
    IF ~(Percent(1) <= target_soc /\ target_soc <= Percent(100))
      THEN ClientRaise(c, "target_soc must be between 1 and 100")
    ELSE IF target_soc <= vehicle_state.battery_soc
      THEN ClientRaise(c, "target_soc must be greater than current SoC")
    ELSE ClientOk(c, [client EXCEPT ![c].pc = "create_session",
                                    ![c].target = target_soc])

\* start_charging without the test for a session that is already active
StartCharging_NoActiveTest(c, target_soc, max) ==
    /\ client[c].pc = "idle"
    /\ Len(sessions) + Cardinality({d \in Clients :
                            client[d].pc \in {"start_test", "create_session"}}) < max
    /\ IF ~vehicle_state.is_plugged_in
         THEN ClientRaise(c, "Vehicle must be plugged in to start charging")
       ELSE ValidateTarget(c, target_soc)
    /\ UNCHANGED <<vehicle_state, cmdVars, sessions, current_session, charging_thread,
                   stop_charging_flag, charge_limit, sessions_file, loops>>

\* start_charging, lines 79-83 and, when current_session is None, 87-91:
\* `self.current_session and ...` reads the attribute a first time
StartCharging(c, target_soc, max) ==
    /\ client[c].pc = "idle"
    /\ Len(sessions) + Cardinality({d \in Clients :
                            client[d].pc \in {"start_test", "create_session"}}) < max
    /\ IF ~vehicle_state.is_plugged_in
         THEN ClientRaise(c, "Vehicle must be plugged in to start charging")
       ELSE IF current_session # NoSession
         THEN ClientOk(c, [client EXCEPT ![c].pc = "start_test",
                                         ![c].target = target_soc])
       ELSE ValidateTarget(c, target_soc)
    /\ UNCHANGED <<vehicle_state, cmdVars, sessions, current_session, charging_thread,
                   stop_charging_flag, charge_limit, sessions_file, loops>>

\* start_charging, lines 83-91: `self.current_session.is_active` reads the
\* attribute a second time, and None has no is_active
StartTest(c) ==
    /\ client[c].pc = "start_test"
    /\ IF current_session = NoSession
         THEN ClientRaise(c, "AttributeError")
       ELSE IF sessions[current_session].is_active
         THEN ClientRaise(c, "Charging session already active")
       ELSE ValidateTarget(c, client[c].target)
    /\ UNCHANGED <<vehicle_state, cmdVars, sessions, current_session, charging_thread,
                   stop_charging_flag, charge_limit, sessions_file, loops>>

\* start_charging, lines 94-111
CreateSession(c) ==
    /\ client[c].pc = "create_session"
    /\ \E location \in Locations :
         LET s == ChargingSession(vehicle_state.battery_soc, client[c].target, location)
         IN IF ValidSession(s)
            THEN /\ sessions' = Append(sessions, s)
                 /\ current_session' = Len(sessions) + 1
                 /\ ClientOk(c, ClientGoto(c, "start_thread"))
            ELSE /\ ClientRaise(c, "target_soc must be between 0 and 100")
                 /\ UNCHANGED <<sessions, current_session>>
    /\ UNCHANGED <<vehicle_state, cmdVars, charging_thread, stop_charging_flag,
                   charge_limit, sessions_file, loops>>

\* start_charging, lines 114-118
StartThread(c) ==
    /\ client[c].pc = "start_thread"
    /\ stop_charging_flag' = FALSE
    /\ loops' = Append(loops, NewLoop)
    /\ charging_thread' = Len(loops) + 1
    /\ ClientOk(c, ClientReturn(c))
    /\ UNCHANGED <<vehicle_state, cmdVars, sessions, current_session, charge_limit,
                   sessions_file>>

\* stop_charging, line 122: `not self.current_session or ...` reads the
\* attribute a first time
StopCharging(c) ==
    /\ client[c].pc = "idle"
    /\ IF current_session = NoSession
         THEN ClientRaise(c, "No active charging session")
         ELSE ClientOk(c, [client EXCEPT ![c].pc = "stop_test",
                                         ![c].session = IF SessionActive
                                                        THEN current_session
                                                        ELSE NoSession])
    /\ UNCHANGED <<vehicle_state, cmdVars, sessions, current_session, charging_thread,
                   stop_charging_flag, charge_limit, sessions_file, loops>>

\* stop_charging, lines 122-126: `not self.current_session.is_active` reads
\* the attribute a second time, and None has no is_active
StopTest(c) ==
    /\ client[c].pc = "stop_test"
    /\ IF current_session = NoSession
         THEN /\ ClientRaise(c, "AttributeError")
              /\ UNCHANGED stop_charging_flag
       ELSE IF ~sessions[current_session].is_active
         THEN /\ ClientRaise(c, "No active charging session")
              /\ UNCHANGED stop_charging_flag
       ELSE /\ ClientOk(c, ClientGoto(c, "join"))
            /\ stop_charging_flag' = TRUE
    /\ UNCHANGED <<vehicle_state, cmdVars, sessions, current_session, charging_thread,
                   charge_limit, sessions_file, loops>>

\* stop_charging, lines 127-128: the thread has ended
StopJoin(c) ==
    /\ client[c].pc = "join"
    /\ ~LoopAlive(charging_thread)
    /\ ClientOk(c, ClientGoto(c, "stop_mark"))
    /\ UNCHANGED <<vehicle_state, cmdVars, sessions, current_session, charging_thread,
                   stop_charging_flag, charge_limit, sessions_file, loops>>

\* stop_charging, line 128: join(timeout=2.0) gives up on a live thread
JoinTimeout(c) ==
    /\ client[c].pc = "join"
    /\ LoopAlive(charging_thread)
    /\ ClientOk(c, ClientGoto(c, "stop_mark"))
    /\ UNCHANGED <<vehicle_state, cmdVars, sessions, current_session, charging_thread,
                   stop_charging_flag, charge_limit, sessions_file, loops>>

\* stop_charging, lines 131-132
StopMark(c) ==
    /\ client[c].pc = "stop_mark"
    /\ IF current_session = NoSession
         THEN /\ ClientRaise(c, "AttributeError")
              /\ UNCHANGED sessions
         ELSE /\ sessions' = [sessions EXCEPT ![current_session].is_active = FALSE,
                                              ![current_session].end_time = now]
              /\ ClientOk(c, ClientGoto(c, "stop_archive"))
    /\ UNCHANGED <<vehicle_state, cmdVars, current_session, charging_thread,
                   stop_charging_flag, charge_limit, sessions_file, loops>>

\* stop_charging, line 135, into _save_session, lines 393-405: the file is
\* read and the session appended to the list read
StopArchive(c) ==
    /\ client[c].pc = "stop_archive"
    /\ IF current_session = NoSession
         THEN ClientRaise(c, "AttributeError")
         ELSE ClientOk(c, [client EXCEPT
                  ![c].pc = "stop_write",
                  ![c].data = _save_session(sessions_file, current_session)])
    /\ UNCHANGED <<vehicle_state, cmdVars, sessions, current_session, charging_thread,
                   stop_charging_flag, charge_limit, sessions_file, loops>>

\* _save_session, line 407: atomic_write_json replaces the file
StopWrite(c) ==
    /\ client[c].pc = "stop_write"
    /\ sessions_file' = client[c].data
    /\ ClientOk(c, [client EXCEPT ![c].pc = "stop_clear", ![c].data = <<>>])
    /\ UNCHANGED <<vehicle_state, cmdVars, sessions, current_session, charging_thread,
                   stop_charging_flag, charge_limit, loops>>

\* stop_charging, lines 137-140: completed_session is what current_session
\* holds now
StopClear(c) ==
    /\ client[c].pc = "stop_clear"
    /\ current_session' = NoSession
    /\ loops' = [l \in DOMAIN loops |->
                    IF LoopAlive(l) THEN [loops[l] EXCEPT !.stopped = TRUE] ELSE loops[l]]
    /\ ClientOk(c, ClientReturn(c))
    /\ UNCHANGED <<vehicle_state, cmdVars, sessions, charging_thread,
                   stop_charging_flag, charge_limit, sessions_file>>

\* set_charge_limit, line 163
ValidChargeLimit(limit) == Percent(1) <= limit /\ limit <= Percent(100)

\* set_charge_limit, lines 163-170
SetChargeLimit(c, limit) ==
    /\ client[c].pc = "idle"
    /\ IF ~ValidChargeLimit(limit)
         THEN /\ ClientRaise(c, "Charge limit must be between 1 and 100")
              /\ UNCHANGED charge_limit
         ELSE /\ charge_limit' = limit
              /\ ClientOk(c, IF SessionActive
                              THEN [client EXCEPT ![c].pc = "limit_target",
                                                  ![c].limit = limit]
                              ELSE ClientReturn(c))
    /\ UNCHANGED <<vehicle_state, cmdVars, sessions, current_session, charging_thread,
                   stop_charging_flag, sessions_file, loops>>

\* set_charge_limit, lines 171-173
SetSessionTarget(c) ==
    /\ client[c].pc = "limit_target"
    /\ IF current_session = NoSession
         THEN /\ ClientRaise(c, "AttributeError")
              /\ UNCHANGED sessions
         ELSE /\ sessions' = [sessions EXCEPT
                    ![current_session].target_soc = client[c].limit]
              /\ ClientOk(c, ClientReturn(c))
    /\ UNCHANGED <<vehicle_state, cmdVars, current_session, charging_thread,
                   stop_charging_flag, charge_limit, sessions_file, loops>>

LoopGoto(l, label) ==
    IF label \in {"exited", "crashed"}
    THEN [loops EXCEPT ![l] = [NewLoop EXCEPT !.pc = label]]
    ELSE [loops EXCEPT ![l].pc = label]

\* _simulate_charging, lines 240-244
LoopTest(l) ==
    /\ loops[l].pc = "loop"
    /\ IF stop_charging_flag \/ current_session = NoSession
         THEN /\ loops' = LoopGoto(l, "auto_stop")
              /\ UNCHANGED stop_charging_flag
         ELSE IF vehicle_state.battery_soc >= sessions[current_session].target_soc
         THEN /\ loops' = LoopGoto(l, "auto_stop")
              /\ stop_charging_flag' = TRUE
         ELSE /\ loops' = LoopGoto(l, "tick")
              /\ UNCHANGED stop_charging_flag
    /\ raised' = NoError
    /\ UNCHANGED <<vehicle_state, cmdVars, sessions, current_session, charging_thread,
                   charge_limit, sessions_file, client>>

\* _simulate_charging, lines 247-259: the rate is stored in the session and
\* new_soc evaluated
TickRead(l) ==
    /\ loops[l].pc = "tick"
    /\ loops[l].ticks < MaxTicks
    /\ IF current_session = NoSession
         THEN /\ loops' = LoopGoto(l, "crashed")
              /\ UNCHANGED sessions
         ELSE LET s == sessions[current_session]
                  current_rate == _calculate_charging_rate(vehicle_state.battery_soc,
                                                           MaxRate(s.location))
              IN /\ sessions' = [sessions EXCEPT
                        ![current_session].charging_rate_kw = current_rate,
                        ![current_session].amperage = Amperage(current_rate, s.voltage)]
                 /\ loops' = [loops EXCEPT
                        ![l].pc = "write",
                        ![l].ticks = @ + 1,
                        ![l].rate = current_rate,
                        ![l].new_soc = NewSoc(s.target_soc, vehicle_state.battery_soc,
                                              SocIncrease(current_rate))]
    /\ raised' = NoError
    /\ UNCHANGED <<vehicle_state, cmdVars, current_session, charging_thread,
                   stop_charging_flag, charge_limit, sessions_file, client>>

\* _simulate_charging, lines 260-267: the store to battery_soc, the session
\* update, and the sleep
TickWrite(l) ==
    /\ loops[l].pc = "write"
    /\ vehicle_state' = [vehicle_state EXCEPT !.battery_soc = loops[l].new_soc]
    /\ IF current_session = NoSession
         THEN /\ loops' = LoopGoto(l, "crashed")
              /\ UNCHANGED sessions
         ELSE /\ sessions' = [sessions EXCEPT
                    ![current_session].current_soc = loops[l].new_soc,
                    ![current_session].energy_added_kwh = @ + loops[l].rate,
                    ![current_session].cost =
                        Cost(sessions[current_session].energy_added_kwh + loops[l].rate)]
              /\ loops' = [loops EXCEPT ![l].pc = "loop", ![l].rate = 0, ![l].new_soc = 0]
    /\ raised' = NoError
    /\ UNCHANGED <<cmdVars, current_session, charging_thread, stop_charging_flag,
                   charge_limit, sessions_file, client>>

\* _simulate_charging, line 270
AutoStopCheck(l) ==
    /\ loops[l].pc = "auto_stop"
    /\ loops' = IF /\ current_session # NoSession
                   /\ vehicle_state.battery_soc >= sessions[current_session].target_soc
                THEN LoopGoto(l, "auto_mark")
                ELSE LoopGoto(l, "exited")
    /\ raised' = NoError
    /\ UNCHANGED <<vehicle_state, cmdVars, sessions, current_session, charging_thread,
                   stop_charging_flag, charge_limit, sessions_file, client>>

\* _simulate_charging, lines 272-273
AutoMark(l) ==
    /\ loops[l].pc = "auto_mark"
    /\ IF current_session = NoSession
         THEN /\ loops' = LoopGoto(l, "crashed")
              /\ UNCHANGED sessions
         ELSE /\ sessions' = [sessions EXCEPT ![current_session].is_active = FALSE,
                                              ![current_session].end_time = now]
              /\ loops' = LoopGoto(l, "auto_archive")
    /\ raised' = NoError
    /\ UNCHANGED <<vehicle_state, cmdVars, current_session, charging_thread,
                   stop_charging_flag, charge_limit, sessions_file, client>>

\* _simulate_charging, line 274, into _save_session, lines 393-405
AutoArchive(l) ==
    /\ loops[l].pc = "auto_archive"
    /\ loops' = IF current_session = NoSession
                THEN LoopGoto(l, "crashed")
                ELSE [loops EXCEPT
                         ![l].pc = "auto_write",
                         ![l].data = _save_session(sessions_file, current_session)]
    /\ raised' = NoError
    /\ UNCHANGED <<vehicle_state, cmdVars, sessions, current_session, charging_thread,
                   stop_charging_flag, charge_limit, sessions_file, client>>

\* _save_session, line 407
AutoWrite(l) ==
    /\ loops[l].pc = "auto_write"
    /\ sessions_file' = loops[l].data
    /\ loops' = [loops EXCEPT ![l].pc = "auto_clear", ![l].data = <<>>]
    /\ raised' = NoError
    /\ UNCHANGED <<vehicle_state, cmdVars, sessions, current_session, charging_thread,
                   stop_charging_flag, charge_limit, client>>

\* the auto-completion keeping the reference to the finished session
AutoClear_KeepsReference(l) ==
    /\ loops[l].pc = "auto_clear"
    /\ loops' = LoopGoto(l, "exited")
    /\ raised' = NoError
    /\ UNCHANGED <<vehicle_state, cmdVars, sessions, current_session, charging_thread,
                   stop_charging_flag, charge_limit, sessions_file, client>>

\* _simulate_charging, lines 275-276
AutoClear(l) ==
    /\ loops[l].pc = "auto_clear"
    /\ current_session' = NoSession
    /\ loops' = LoopGoto(l, "exited")
    /\ raised' = NoError
    /\ UNCHANGED <<vehicle_state, cmdVars, sessions, charging_thread,
                   stop_charging_flag, charge_limit, sessions_file, client>>

InitCharging ==
    /\ sessions = <<>>
    /\ current_session = NoSession
    /\ charging_thread = NoLoop
    /\ stop_charging_flag = FALSE
    /\ charge_limit = DefaultChargeLimit
    /\ sessions_file = <<>>
    /\ loops = <<>>
    /\ client = [c \in Clients |-> IdleClient]

\* ---------------------------------------------------------------- inputs
Input(type, params) == [type |-> type, parameters |-> params]

NoParams == <<>>

CmdInputs ==
    { Input("LOCK", NoParams), Input("UNLOCK", NoParams),
      Input("CLIMATE_ON", NoParams), Input("CLIMATE_OFF", NoParams),
      Input("SET_TEMP", [target_temp |-> 18]),
      Input("TRUNK_OPEN", NoParams), Input("FRUNK_OPEN", NoParams),
      Input("HONK_FLASH", NoParams) }

Scenarios ==
    { VehicleState(Percent(75), "UNLOCKED", 0, FALSE),
      VehicleState(Percent(10), "LOCKED", 0, FALSE),
      VehicleState(Percent(9), "LOCKED", 15, FALSE) }

\* ---------------------------------------------------------------- command dispatch
InitCmd ==
    /\ vehicle_state \in Scenarios
    /\ commands = <<>>
    /\ queue = <<>>
    /\ executing = NoCommand
    /\ command_history = {}
    /\ thread = [k \in Threads |-> IdleThread]
    /\ now = 1
    /\ raised = NoError
    /\ InitCharging

NextCmd ==
    \/ \E k \in Threads, inp \in CmdInputs : SendCommand(k, inp, MaxCmds)
    \/ \E k \in Threads : Enqueue(k)
    \/ \E k \in Threads : ExecuteIfOnly(k)
    \/ \E k \in Threads : Dequeue(k)
    \/ \E k \in Threads : SetExecuting(k, Delays)
    \/ \E k \in Threads : SimulatedFailure(k)
    \/ \E k \in Threads : ExecuteCommand(k)
    \/ \E k \in Threads : SetLockTimestamp(k)
    \/ \E k \in Threads : SetClimateActive(k)
    \/ \E k \in Threads : SetClimateTemp(k)
    \/ \E k \in Threads : DrainRead(k)
    \/ \E k \in Threads : DrainWrite(k)
    \/ \E k \in Threads : FinishCommand(k)
    \/ \E k \in Threads : ClearExecuting(k)
    \/ \E k \in Threads : ExecuteNext(k)

SpecCmd == InitCmd /\ [][NextCmd]_vars

\* one caller that also sends command objects again and calls mark_timeout,
\* and a second one that cancels
NextResubmit ==
    \/ \E inp \in CmdInputs : SendCommand(1, inp, MaxCmds)
    \/ \E id \in 1..Len(commands) : Resubmit(1, id)
    \/ \E id \in 1..Len(commands) : MarkTimeout(id, TimeoutMs)
    \/ \E id \in 1..Len(commands) : CancelCommand(2, id)
    \/ CancelDelete(2)
    \/ Enqueue(1)
    \/ ExecuteIfOnly(1)
    \/ Dequeue(1)
    \/ SetExecuting(1, Delays)
    \/ SimulatedFailure(1)
    \/ ExecuteCommand(1)
    \/ SetLockTimestamp(1)
    \/ SetClimateActive(1)
    \/ SetClimateTemp(1)
    \/ DrainRead(1)
    \/ DrainWrite(1)
    \/ FinishCommand(1)
    \/ ClearExecuting(1)
    \/ ExecuteNext(1)

SpecResubmit == InitCmd /\ [][NextResubmit]_vars

CancelInputs == { Input("TRUNK_OPEN", NoParams), Input("HONK_FLASH", NoParams) }

\* request threads that send and cancel commands on a service with
\* success_rate = 1.0 (src/app.py:72)
NextCancel ==
    \/ \E k \in Threads, inp \in CancelInputs : SendCommand(k, inp, MaxCmds)
    \/ \E k \in Threads, id \in 1..Len(commands) : CancelCommand(k, id)
    \/ \E k \in Threads : CancelDelete(k)
    \/ \E k \in Threads : Enqueue(k)
    \/ \E k \in Threads : ExecuteIfOnly(k)
    \/ \E k \in Threads : Dequeue(k)
    \/ \E k \in Threads : SetExecuting(k, {max_delay_ms})
    \/ \E k \in Threads : ExecuteCommand(k)
    \/ \E k \in Threads : FinishCommand(k)
    \/ \E k \in Threads : ClearExecuting(k)
    \/ \E k \in Threads : ExecuteNext(k)

SpecCancel == InitCmd /\ [][NextCancel]_vars

\* one caller working a CommandQueue directly
NextQueue ==
    \/ \E inp \in CancelInputs : QueueEnqueue(1, inp, MaxQueued)
    \/ QueueDequeue(1)
    \/ \E command \in {thread[1].command, NoCommand} : QueueSetExecuting(1, command)
    \/ \E id \in 1..Len(commands) : CancelCommand(1, id)
    \/ CancelDelete(1)

SpecQueue == InitCmd /\ [][NextQueue]_vars

\* commands with parameters, in and out of range
ParamInputs ==
    { Input("SET_TEMP", [target_temp |-> 30]),
      Input("CLIMATE_ON", [target_temp |-> 30]),
      Input("CLIMATE_ON", NoParams),
      Input("SEAT_HEAT", [seat |-> "middle", level |-> "high"]),
      Input("SEAT_HEAT", [seat |-> "front_left", level |-> "max"]),
      Input("SEAT_HEAT", [seat |-> "rear", level |-> "high"]),
      Input("DEFROST", [position |-> "side", enabled |-> TRUE]),
      Input("DEFROST", [position |-> "rear", enabled |-> TRUE]),
      Input("STEERING_HEAT", [enabled |-> TRUE]),
      Input("LOCK", NoParams) }

\* one caller sending the commands that carry parameters
NextParams ==
    \/ \E inp \in ParamInputs : SendCommand(1, inp, MaxCmds)
    \/ Enqueue(1)
    \/ ExecuteIfOnly(1)
    \/ Dequeue(1)
    \/ SetExecuting(1, Delays)
    \/ SimulatedFailure(1)
    \/ ExecuteCommand(1)
    \/ SetLockTimestamp(1)
    \/ SetClimateActive(1)
    \/ SetClimateTemp(1)
    \/ DrainRead(1)
    \/ DrainWrite(1)
    \/ FinishCommand(1)
    \/ ClearExecuting(1)
    \/ ExecuteNext(1)

SpecParams == InitCmd /\ [][NextParams]_vars

\* ---------------------------------------------------------------- charging
ChgScenarios ==
    { VehicleState(Percent(80) - 50, "LOCKED", 0, TRUE),
      VehicleState(Percent(100) - 50, "LOCKED", 0, TRUE),
      VehicleState(Percent(80) - 50, "LOCKED", 0, FALSE) }

ChgInputs == { Input("CLIMATE_ON", [target_temp |-> 28]) }

\* requested targets and limits: around the scenarios' state of charge, and
\* out of range
Targets == { Percent(80), Percent(100), Percent(101) }

Limits == { Percent(80) - 20, Percent(101) }

InitChg ==
    /\ vehicle_state \in ChgScenarios
    /\ commands = <<>>
    /\ queue = <<>>
    /\ executing = NoCommand
    /\ command_history = {}
    /\ thread = [k \in Threads |-> IdleThread]
    /\ now = 1
    /\ raised = NoError
    /\ InitCharging

Loops == 1..Len(loops)

StartApi(c, max) ==
    \/ \E t \in Targets : StartCharging(c, t, max)
    \/ CreateSession(c)
    \/ StartThread(c)

StopApi(c) ==
    \/ StopCharging(c)
    \/ StopTest(c)
    \/ StopJoin(c)
    \/ JoinTimeout(c)
    \/ StopMark(c)
    \/ StopArchive(c)
    \/ StopWrite(c)
    \/ StopClear(c)

ChargingApi(c, max) ==
    \/ StartApi(c, max)
    \/ StopApi(c)

ChargeLimitApi(c) ==
    \/ \E limit \in Limits : SetChargeLimit(c, limit)
    \/ SetSessionTarget(c)

SimulateCharging(l) ==
    \/ LoopTest(l)
    \/ TickRead(l)
    \/ TickWrite(l)
    \/ AutoStopCheck(l)
    \/ AutoMark(l)
    \/ AutoArchive(l)
    \/ AutoWrite(l)
    \/ AutoClear(l)

ClimateCommand(k) ==
    \/ \E inp \in ChgInputs : SendCommand(k, inp, MaxChgCmds)
    \/ Enqueue(k)
    \/ ExecuteIfOnly(k)
    \/ Dequeue(k)
    \/ SetExecuting(k, {max_delay_ms})
    \/ ExecuteCommand(k)
    \/ SetClimateActive(k)
    \/ SetClimateTemp(k)
    \/ DrainRead(k)
    \/ DrainWrite(k)
    \/ FinishCommand(k)
    \/ ClearExecuting(k)
    \/ ExecuteNext(k)

\* one client of the charging service, the charging loops, one command thread
\* of a service with success_rate = 1.0 (src/app.py:72)
NextChg ==
    \/ ChargingApi(1, MaxChgSessions)
    \/ ChargeLimitApi(1)
    \/ \E l \in Loops : SimulateCharging(l)
    \/ ClimateCommand(1)

SpecChg == InitChg /\ [][NextChg]_vars

\* the charging loops against the CLIMATE_ON drain, the limit left alone
NextDrain ==
    \/ ChargingApi(1, MaxChgSessions)
    \/ \E l \in Loops : SimulateCharging(l)
    \/ ClimateCommand(1)

SpecDrain == InitChg /\ [][NextDrain]_vars

\* concurrent clients of start_charging, one of them also calling
\* stop_charging
NextRace ==
    \/ \E c \in Clients : StartApi(c, MaxSessions)
    \/ \E c \in Clients : StartTest(c)
    \/ StopApi(1)
    \/ \E l \in Loops : SimulateCharging(l)

InitRace == InitChg /\ vehicle_state = VehicleState(Percent(80) - 50, "LOCKED", 0, TRUE)

SpecRace == InitRace /\ [][NextRace]_vars

\* one client that starts and stops sessions one after the other
NextStart ==
    \/ ChargingApi(1, MaxSessions)
    \/ StartTest(1)
    \/ \E l \in Loops : SimulateCharging(l)

SpecStart == InitChg /\ [][NextStart]_vars

\* a session left to itself: one start_charging(80) a few ticks below the
\* target, no stop_charging, no set_charge_limit; the client thread and the
\* loop thread keep running
LiveGaps == {10, 20, 30, 40, 50, 60, 70}

InitLive ==
    /\ vehicle_state \in { VehicleState(Percent(80) - gap, "LOCKED", 0, TRUE) :
                              gap \in LiveGaps }
    /\ commands = <<>>
    /\ queue = <<>>
    /\ executing = NoCommand
    /\ command_history = {}
    /\ thread = [k \in Threads |-> IdleThread]
    /\ now = 1
    /\ raised = NoError
    /\ InitCharging

NextLive ==
    \/ StartCharging(1, Percent(80), MaxChgSessions)
    \/ CreateSession(1)
    \/ StartThread(1)
    \/ \E l \in Loops : SimulateCharging(l)

SpecLive ==
    /\ InitLive
    /\ [][NextLive]_vars
    /\ WF_vars(CreateSession(1) \/ StartThread(1))
    /\ WF_vars(\E l \in Loops : SimulateCharging(l))

\* a service that finds a history file left by earlier runs: the sessions of
\* earlier runs are numbered -n .. -1, oldest first
Earlier(n) == [i \in 1..n |-> i - n - 1]

PersistedCounts == {0, HistoryCap - 2, HistoryCap - 1, HistoryCap}

InitHistory ==
    /\ vehicle_state = VehicleState(Percent(80) - 50, "LOCKED", 0, TRUE)
    /\ commands = <<>>
    /\ queue = <<>>
    /\ executing = NoCommand
    /\ command_history = {}
    /\ thread = [k \in Threads |-> IdleThread]
    /\ now = 1
    /\ raised = NoError
    /\ sessions = <<>>
    /\ current_session = NoSession
    /\ charging_thread = NoLoop
    /\ stop_charging_flag = FALSE
    /\ charge_limit = DefaultChargeLimit
    /\ sessions_file \in { Earlier(n) : n \in PersistedCounts }
    /\ loops = <<>>
    /\ client = [c \in Clients |-> IdleClient]

SpecHistory == InitHistory /\ [][NextStart]_vars

\* the charging curve: a session started at each state of charge of interest,
\* in each band, on each breakpoint and just below it
RateSocs ==
    { Percent(10), Percent(20) - 1, Percent(20), Percent(50), Percent(80) - 1,
      Percent(80), Percent(85), Percent(90) - 1, Percent(90), Percent(95) }

InitRate ==
    /\ vehicle_state \in { VehicleState(soc, "LOCKED", 0, TRUE) : soc \in RateSocs }
    /\ commands = <<>>
    /\ queue = <<>>
    /\ executing = NoCommand
    /\ command_history = {}
    /\ thread = [k \in Threads |-> IdleThread]
    /\ now = 1
    /\ raised = NoError
    /\ InitCharging

NextRate ==
    \/ ChargingApi(1, MaxChgSessions)
    \/ \E l \in Loops : SimulateCharging(l)

SpecRate == InitRate /\ [][NextRate]_vars

\* one caller submitting lock, unlock and other commands one after another
\* on a vehicle that starts UNLOCKED
MaxLockCmds == 3

LockInputs ==
    { Input("LOCK", NoParams), Input("UNLOCK", NoParams),
      Input("TRUNK_OPEN", NoParams), Input("HONK_FLASH", NoParams) }

InitLock ==
    /\ InitCmd
    /\ vehicle_state.lock_status = "UNLOCKED"

NextLock ==
    \/ \E inp \in LockInputs : SendCommand(1, inp, MaxLockCmds)
    \/ Enqueue(1)
    \/ ExecuteIfOnly(1)
    \/ Dequeue(1)
    \/ SetExecuting(1, Delays)
    \/ SimulatedFailure(1)
    \/ ExecuteCommand(1)
    \/ SetLockTimestamp(1)
    \/ FinishCommand(1)
    \/ ClearExecuting(1)
    \/ ExecuteNext(1)

SpecLock == InitLock /\ [][NextLock]_vars


\* one caller switching the climate on and off, with and without a target
\* temperature, after heating a seat
ClimateInputs ==
    { Input("CLIMATE_ON", NoParams),
      Input("CLIMATE_ON", [target_temp |-> 18]),
      Input("CLIMATE_ON", [target_temp |-> 30]),
      Input("CLIMATE_OFF", NoParams),
      Input("SET_TEMP", [target_temp |-> 28]),
      Input("SEAT_HEAT", [seat |-> "rear", level |-> "high"]),
      Input("LOCK", NoParams) }

NextClimate ==
    \/ \E inp \in ClimateInputs : SendCommand(1, inp, MaxCmds)
    \/ Enqueue(1)
    \/ ExecuteIfOnly(1)
    \/ Dequeue(1)
    \/ SetExecuting(1, Delays)
    \/ SimulatedFailure(1)
    \/ ExecuteCommand(1)
    \/ SetLockTimestamp(1)
    \/ SetClimateActive(1)
    \/ SetClimateTemp(1)
    \/ DrainRead(1)
    \/ DrainWrite(1)
    \/ FinishCommand(1)
    \/ ClearExecuting(1)
    \/ ExecuteNext(1)

SpecClimate == InitCmd /\ [][NextClimate]_vars


\* concurrent send_command callers that keep running: a caller inside
\* send_command always takes its next step
Dispatch(k) ==
    \/ Enqueue(k)
    \/ ExecuteIfOnly(k)
    \/ Dequeue(k)
    \/ SetExecuting(k, Delays)
    \/ SimulatedFailure(k)
    \/ ExecuteCommand(k)
    \/ FinishCommand(k)
    \/ ClearExecuting(k)
    \/ ExecuteNext(k)

NextSend ==
    \/ \E k \in Threads, inp \in CancelInputs : SendCommand(k, inp, MaxCmds)
    \/ \E k \in Threads : Dispatch(k)

SpecSend ==
    /\ InitCmd
    /\ [][NextSend]_vars
    /\ \A k \in Threads : WF_vars(Dispatch(k))


\* ---------------------------------------------------------------- properties
Range(q) == {q[i] : i \in DOMAIN q}

\* thread k holds a command it has dequeued and not yet marked
InExecution(k) ==
    thread[k].pc \in {"set_executing", "sample", "lock_timestamp", "climate_active",
                      "climate_temp", "drain_read", "drain_write", "finish"}

\* the command the step creates, when it creates one
Submits == Len(commands') = Len(commands) + 1

Submitted == commands'[Len(commands')]

\* no thread is left holding the command the step created
NotAccepted ==
    /\ \A k \in Threads : thread'[k].submitted # Len(commands')
                          /\ thread'[k].command # Len(commands')
    /\ Len(commands') \notin command_history'
    /\ Len(commands') \notin Range(queue')
    /\ executing' # Len(commands')
    /\ Submitted.status = "PENDING"

\* C1: at most one command at a time is in execution (dequeued by
\* _execute_next and not yet marked SUCCESS or FAILED), whatever the
\* interleaving of concurrent send_command calls.
C1_SingleFlight == Cardinality({k \in Threads : InExecution(k)}) <= 1

\* C2: a command is dequeued for execution only when every command that was
\* enqueued before it (recorded in the history and no longer waiting) has
\* reached its terminal status.
C2_FifoSerial ==
    [][(\E k \in Threads : thread[k].pc = "dequeue" /\ thread'[k].pc = "set_executing")
         => \A a \in command_history \ Range(queue) : Terminal(commands[a].status)]_vars

\* C3: once a command's status is SUCCESS, FAILED or TIMEOUT, no step changes
\* its status, response_time or error_message.
C3_TerminalImmutable ==
    [][\A c \in DOMAIN commands :
          Terminal(commands[c].status) =>
              /\ commands'[c].status = commands[c].status
              /\ commands'[c].response_time = commands[c].response_time
              /\ commands'[c].error_message = commands[c].error_message]_vars

SocInRange(soc) == 0 <= soc /\ soc <= Percent(100)

\* C4: in every reachable state battery_soc is in [0,100], and so are the
\* start_soc, current_soc and target_soc of an active session.
C4_SocBounds ==
    /\ SocInRange(vehicle_state.battery_soc)
    /\ \A s \in DOMAIN sessions :
          sessions[s].is_active =>
              /\ SocInRange(sessions[s].start_soc)
              /\ SocInRange(sessions[s].current_soc)
              /\ SocInRange(sessions[s].target_soc)

\* C4, its case: a tick clamped the state of charge of an active session at
\* 100 percent
C4_Witness ==
    /\ vehicle_state.battery_soc = Percent(100)
    /\ \E s \in DOMAIN sessions :
          /\ sessions[s].is_active
          /\ sessions[s].start_soc < Percent(100)
          /\ sessions[s].current_soc = Percent(100)

\* C5: while a charging session stays active, no step lowers its current_soc.
C5_CurrentSocMonotone ==
    [][\A s \in DOMAIN sessions :
          (sessions[s].is_active /\ sessions'[s].is_active)
              => sessions'[s].current_soc >= sessions[s].current_soc]_vars

\* C6: every store to battery_soc by the CLIMATE_ON drain or by a charging
\* tick applies that update's delta to the value battery_soc has when the
\* store happens, so that neither update overwrites the other.
C6_NoLostUpdate ==
    [][/\ \A k \in Threads :
            (thread[k].pc = "drain_write" /\ thread'[k].pc # "drain_write")
                => vehicle_state'.battery_soc =
                       DrainedSoc(vehicle_state.battery_soc,
                                  SimulatedDrain(vehicle_state, thread[k].delay_ms))
       /\ \A l \in DOMAIN loops :
            (loops[l].pc = "write" /\ loops'[l].pc # "write" /\ current_session # NoSession)
                => vehicle_state'.battery_soc =
                       NewSoc(sessions[current_session].target_soc,
                              vehicle_state.battery_soc,
                              SocIncrease(loops[l].rate))]_vars

\* C7: at most one charging session is active and at most one background
\* loop is advancing battery_soc at any time.
C7_SingleSession ==
    /\ Cardinality({s \in DOMAIN sessions : sessions[s].is_active}) <= 1
    /\ Cardinality({l \in DOMAIN loops : loops[l].pc \in {"tick", "write"}}) <= 1

\* C8: a send_command call that fails validation has no effect: VehicleState,
\* the waiting list, the executing slot and the history are unchanged, the
\* command stays PENDING and out of the queue and the history, and no later
\* step ever enqueues, records or changes a command that was rejected.
C8_RejectedNoEffect ==
    [][/\ (Submits /\ raised' # NoError) =>
              /\ vehicle_state' = vehicle_state
              /\ queue' = queue
              /\ executing' = executing
              /\ command_history' = command_history
              /\ NotAccepted
       /\ \A c \in DOMAIN commands :
              (/\ c \notin command_history
               /\ \A k \in Threads : thread[k].submitted # c)
              => /\ c \notin command_history'
                 /\ \A k \in Threads : thread'[k].submitted # c
                 /\ c \notin Range(queue')
                 /\ executing' # c
                 /\ commands'[c] = commands[c]
                 /\ commands[c].status = "PENDING"]_vars

\* C8, its case: a call was rejected while another command was executing
C8_Witness ==
    /\ raised # NoError
    /\ executing # NoCommand
    /\ Len(commands) \notin command_history
    /\ commands[Len(commands)].status = "PENDING"

MovingError == "Cannot open trunk/frunk while vehicle is moving"

\* C9: a TRUNK_OPEN or FRUNK_OPEN command submitted while speed > 0 fails
\* with the "moving" error and is not accepted, and no step changes a trunk
\* flag of a vehicle that is moving.
C9_TrunkWhileMoving ==
    [][/\ (/\ Submits
           /\ Submitted.command_type \in {"TRUNK_OPEN", "FRUNK_OPEN"}
           /\ vehicle_state.speed_mph > 0)
          => /\ raised' = MovingError
             /\ NotAccepted
       /\ vehicle_state.speed_mph > 0
          => vehicle_state'.trunk_status = vehicle_state.trunk_status]_vars

\* C9, its case: a trunk command was rejected on a moving vehicle
C9_Witness ==
    /\ raised = MovingError
    /\ vehicle_state.speed_mph > 0
    /\ commands[Len(commands)].command_type \in {"TRUNK_OPEN", "FRUNK_OPEN"}
    /\ vehicle_state.trunk_status = TrunkStatus

BatteryError == "Battery too low (<10%) for climate control"

\* C10: a CLIMATE_ON or SET_TEMP command submitted while battery_soc < 10
\* fails with the "Battery too low" error, is not accepted and leaves the
\* climate state alone; at battery_soc >= 10 it is not rejected for the
\* battery.
C10_ClimateLowBattery ==
    [][(Submits /\ Submitted.command_type \in {"CLIMATE_ON", "SET_TEMP"})
         => IF vehicle_state.battery_soc < Percent(10)
            THEN /\ raised' = BatteryError
                 /\ NotAccepted
                 /\ vehicle_state'.climate_on = vehicle_state.climate_on
                 /\ vehicle_state'.climate_settings = vehicle_state.climate_settings
            ELSE raised' # BatteryError]_vars

\* C10, its case: a climate command was accepted at 10 percent, its drain
\* took the battery below 10, and the next climate command was rejected
C10_Witness ==
    /\ raised = BatteryError
    /\ \E c \in DOMAIN commands :
          commands[c].command_type = "CLIMATE_ON" /\ commands[c].status = "SUCCESS"

\* C11: send_command rejects a command whose target state already holds at
\* submission: LOCK when LOCKED, UNLOCK when UNLOCKED, CLIMATE_ON when
\* climate_on, CLIMATE_OFF when not climate_on; the command is not accepted.
C11_TargetStateHolds ==
    [][Submits =>
         LET t == Submitted.command_type
         IN /\ (t = "LOCK" /\ vehicle_state.lock_status = "LOCKED")
                => (raised' = "Vehicle is already locked" /\ NotAccepted)
            /\ (t = "UNLOCK" /\ vehicle_state.lock_status = "UNLOCKED")
                => (raised' = "Vehicle is already unlocked" /\ NotAccepted)
            /\ (t = "CLIMATE_ON" /\ vehicle_state.climate_on)
                => (raised' \in {"Climate control is already on", BatteryError}
                    /\ NotAccepted)
            /\ (t = "CLIMATE_OFF" /\ ~vehicle_state.climate_on)
                => (raised' = "Climate control is already off" /\ NotAccepted)]_vars

\* C11, its case: a second CLIMATE_ON was rejected after the first one had
\* turned the climate on
C11_Witness ==
    /\ raised = "Climate control is already on"
    /\ vehicle_state.climate_on
    /\ Len(commands) \notin command_history

\* the parameters the specification calls invalid
InvalidParams(c) ==
    LET p == c.parameters
        Has(key) == key \in DOMAIN p
    IN \/ /\ c.command_type \in {"SET_TEMP", "CLIMATE_ON"}
          /\ Has("target_temp")
          /\ ~(15 <= p["target_temp"] /\ p["target_temp"] <= 28)
       \/ /\ c.command_type = "SEAT_HEAT"
          /\ \/ Has("seat") /\ p["seat"] \notin {"front_left", "front_right", "rear"}
             \/ Has("level") /\ p["level"] \notin {"off", "low", "medium", "high"}
       \/ /\ c.command_type = "DEFROST"
          /\ Has("position")
          /\ p["position"] \notin {"front", "rear"}

\* C12: send_command rejects every command with invalid parameters
\* synchronously and before enqueuing it, and no such command is ever
\* SUCCESS.
C12_InvalidParamsRejected ==
    [][/\ (Submits /\ InvalidParams(Submitted)) => (raised' # NoError /\ NotAccepted)
       /\ \A c \in DOMAIN commands' :
              InvalidParams(commands'[c]) => commands'[c].status # "SUCCESS"]_vars

\* C13: when the command a thread executes becomes FAILED, VehicleState is
\* what it was when that command was dequeued for execution.
C13_FailedLeavesState ==
    [][\A k \in Threads :
          (/\ thread[k].command # NoCommand
           /\ commands[thread[k].command].status # "FAILED"
           /\ commands'[thread[k].command].status = "FAILED")
          => vehicle_state' = thread[k].began]_vars

\* thread k calls cancel_command(id) in this step
Cancels(k, id) ==
    /\ thread[k].pc = "idle"
    /\ thread'[k] # thread[k]
    /\ thread'[k].command_id = id
    /\ thread'[k].submitted = NoCommand

\* the command is in execution: in the executing slot, or dequeued by a
\* thread that has not yet marked it
Executing(id) ==
    \/ executing = id
    \/ \E j \in Threads : InExecution(j) /\ thread[j].command = id

Without(q, id) ==
    LET Other(x) == x # id
    IN SelectSeq(q, Other)

\* C15: cancel_command with the id of a command still waiting finds it and
\* returns True, removing that command and no other from the waiting list;
\* and a command whose cancellation returned True stays PENDING, out of the
\* waiting list and out of execution.
C15_CancelWaiting ==
    [][/\ \A k \in Threads : \A id \in DOMAIN commands :
              (Cancels(k, id) /\ id \in Range(queue) /\ ~Executing(id))
              => thread'[k].pc = "cancel_del"
       /\ \A k \in Threads :
              (thread[k].pc = "cancel_del" /\ thread'[k].pc # "cancel_del")
              => /\ thread'[k].returned = "True"
                 /\ raised' = NoError
                 /\ queue' = Without(queue, thread[k].command_id)
       /\ \A k \in Threads :
              thread'[k].returned = "True"
              => /\ commands'[thread'[k].command_id].status = "PENDING"
                 /\ thread'[k].command_id \notin Range(queue')
                 /\ executing' # thread'[k].command_id
                 /\ \A j \in Threads : thread'[j].command # thread'[k].command_id]_vars

\* C16: on a CommandQueue worked by one caller, dequeue returns the earliest
\* enqueued command among those waiting and takes exactly it off the waiting
\* set, or returns None and leaves the queue as it is when none is waiting;
\* enqueue adds exactly the new command, remove_by_id takes exactly the named
\* one, nothing else changes the waiting set; size() is the number of waiting
\* commands whatever the executing slot holds.
Earliest(S) == CHOOSE x \in S : \A y \in S : x <= y

C16_QueueFifo ==
    [][/\ size(queue') = Cardinality(Range(queue'))
       /\ thread'[1].returned \in {"None", "command"}
            => IF Range(queue) = {}
               THEN /\ thread'[1].returned = "None"
                    /\ thread'[1].command = NoCommand
                    /\ queue' = queue
               ELSE /\ thread'[1].returned = "command"
                    /\ thread'[1].command = Earliest(Range(queue))
                    /\ Range(queue') = Range(queue) \ {thread'[1].command}
       /\ Len(commands') > Len(commands)
            => /\ Range(queue') = Range(queue) \cup {Len(commands')}
               /\ queue'[Len(queue')] = Len(commands')
       /\ (thread[1].pc = "cancel_del" /\ thread'[1].pc = "idle")
            => /\ thread'[1].returned = "True"
               /\ Range(queue') = Range(queue) \ {thread[1].command_id}
       /\ (/\ thread'[1].returned \notin {"None", "command"}
           /\ Len(commands') = Len(commands)
           /\ thread[1].pc # "cancel_del")
            => queue' = queue]_vars

C16_Witness ==
    /\ thread[1].returned = "command"
    /\ thread[1].command = 3
    /\ executing = 1
    /\ queue = <<>>
    /\ Len(commands) = 3

\* C17: whenever the service computes the charging rate (when start_charging
\* builds the session and at every tick of the loop), the rate is max below
\* 20%, 0.95 max from 20% to below 80%, 0.6 max from 80% to below 90% and
\* 0.3 max from 90% on; for max = 250 kW that is 250, 237.5, 150 and 75 kW at
\* 10%, 50%, 85% and 95%.
Band(soc) ==
    IF soc < Percent(20) THEN 100
    ELSE IF Percent(20) <= soc /\ soc < Percent(80) THEN 95
    ELSE IF Percent(80) <= soc /\ soc < Percent(90) THEN 60
    ELSE 30

OnCurve(rate, soc, max) ==
    /\ rate * 100 = Band(soc) * max
    /\ (max = 250000 /\ soc = Percent(10)) => rate = 250000
    /\ (max = 250000 /\ soc = Percent(50)) => rate = 237500
    /\ (max = 250000 /\ soc = Percent(85)) => rate = 150000
    /\ (max = 250000 /\ soc = Percent(95)) => rate = 75000

C17_ChargingCurve ==
    [][/\ Len(sessions') > Len(sessions)
            => LET s == sessions'[Len(sessions')]
               IN OnCurve(s.charging_rate_kw, vehicle_state.battery_soc,
                          MaxRate(s.location))
       /\ \A l \in Loops :
            (loops[l].pc = "tick" /\ loops'[l].pc = "write")
            => LET s == sessions'[current_session]
               IN /\ OnCurve(s.charging_rate_kw, vehicle_state.battery_soc,
                             MaxRate(s.location))
                  /\ loops'[l].rate = s.charging_rate_kw]_vars

C17_Witness ==
    /\ vehicle_state.battery_soc = Percent(90)
    /\ \E l \in Loops : loops[l].pc = "write" /\ loops[l].rate = 75000
    /\ sessions[current_session].charging_rate_kw = 75000

\* C18: a start_charging call gets past its checks only if the vehicle is
\* plugged in, no session is active and the target is above battery_soc and at
\* most 100; a call that fails creates no session, starts no loop and leaves
\* current_session and battery_soc as they were.
StartErrors ==
    { "Vehicle must be plugged in to start charging",
      "Charging session already active",
      "target_soc must be between 1 and 100",
      "target_soc must be greater than current SoC" }

C18_StartChargingFails ==
    [][\A c \in Clients :
         /\ (client[c].pc \in {"idle", "start_test"} /\ client'[c].pc = "create_session")
              => /\ vehicle_state.is_plugged_in
                 /\ ~SessionActive
                 /\ vehicle_state.battery_soc < client'[c].target
                 /\ client'[c].target <= Percent(100)
         /\ (\/ client[c].pc = "idle" /\ raised' \in StartErrors
             \/ client[c].pc \in {"start_test", "create_session"} /\ client'[c].pc = "idle")
              => /\ raised' # NoError
                 /\ client'[c].pc = "idle"
                 /\ sessions' = sessions
                 /\ current_session' = current_session
                 /\ loops' = loops
                 /\ charging_thread' = charging_thread
                 /\ vehicle_state' = vehicle_state]_vars

C18_Witness ==
    /\ raised = "Charging session already active"
    /\ SessionActive
    /\ Len(sessions) = 1
    /\ Len(loops) = 1
    /\ client[1].pc = "idle"

\* C19: a stop_charging call made when no session is active ends by raising
\* "No active charging session", and no step of it archives a session or
\* changes current_session, the sessions or battery_soc.
StopsWithout(c) ==
    \/ /\ client[c].pc = "idle"
       /\ ~SessionActive
       /\ client'[c].pc = "stop_test" \/ raised' = "No active charging session"
    \/ /\ client[c].pc = "stop_test"
       /\ client[c].session = NoSession
       /\ client'[c] # client[c]

C19_StopWithoutSession ==
    [][\A c \in Clients :
         StopsWithout(c)
         => /\ client'[c].pc = "idle" => raised' = "No active charging session"
            /\ client'[c].pc \in {"idle", "stop_test"}
            /\ sessions_file' = sessions_file
            /\ current_session' = current_session
            /\ sessions' = sessions
            /\ stop_charging_flag' = stop_charging_flag
            /\ vehicle_state' = vehicle_state]_vars

\* C20: a stop_charging call that found a session active goes through without
\* raising, whatever the loop does meanwhile; when it returns, the session it
\* returns is the one that was active when it was called, with is_active
\* false and end_time set, and current_session is None.
StopInProgress(c) ==
    client[c].pc \in {"join", "stop_mark", "stop_archive", "stop_write", "stop_clear"}

C20_StopReturnsSession ==
    [][\A c \in Clients :
         (StopInProgress(c) /\ client'[c] # client[c])
         => /\ raised' = NoError
            /\ client'[c].pc = "idle"
                 => /\ client[c].session # NoSession
                    /\ current_session = client[c].session
                    /\ ~sessions'[client[c].session].is_active
                    /\ sessions'[client[c].session].end_time # NoTime
                    /\ current_session' = NoSession]_vars

\* C21: a session that is active, with nobody calling stop_charging or
\* set_charge_limit and its loop running, is eventually completed by the loop:
\* battery_soc is at least the target, the session is inactive with an
\* end_time, it is in the history, and current_session is None.
AutoCompleted(s) ==
    /\ Len(sessions) >= s
    /\ vehicle_state.battery_soc >= sessions[s].target_soc
    /\ ~sessions[s].is_active
    /\ sessions[s].end_time # NoTime
    /\ s \in Range(sessions_file)
    /\ current_session = NoSession

C21_AutoCompletes ==
    \A s \in 1..MaxChgSessions :
        (Len(sessions) >= s /\ current_session = s /\ sessions[s].is_active)
            ~> AutoCompleted(s)

C21_Witness ==
    /\ AutoCompleted(1)
    /\ sessions[1].start_soc = Percent(80) - 70
    /\ sessions[1].location = "Home Charger"
    /\ \A c \in Clients : client[c].pc = "idle"

\* C22: set_charge_limit with a limit outside 1..100 raises and leaves the
\* stored limit and the sessions alone; with a limit in 1..100 it stores the
\* limit and, when a session is active, goes on to set that session's
\* target_soc to it and returns; from then on the loop goes into another tick
\* only while battery_soc is below the target, and no step raises battery_soc
\* above the limit the active session has been retargeted to.
LimitRejected ==
    \A c \in Clients :
        (client[c].pc = "idle" /\ raised' = "Charge limit must be between 1 and 100")
        => charge_limit' = charge_limit /\ sessions' = sessions

LimitStored ==
    /\ charge_limit' # charge_limit => ValidChargeLimit(charge_limit')
    /\ (charge_limit' # charge_limit /\ SessionActive)
         => \E c \in Clients : client[c].pc = "idle" /\ client'[c].pc = "limit_target"
    /\ \A c \in Clients :
         (client[c].pc = "idle" /\ client'[c].pc = "limit_target")
         => charge_limit' = client'[c].limit /\ SessionActive

LimitRetargets ==
    \A c \in Clients :
        (client[c].pc = "limit_target" /\ client'[c].pc = "idle")
        => /\ raised' = NoError
           /\ current_session # NoSession
           /\ sessions'[current_session].target_soc = client[c].limit

LoopHonoursLimit ==
    /\ \A l \in DOMAIN loops :
        (loops[l].pc = "loop" /\ loops'[l].pc = "tick")
        => vehicle_state.battery_soc < sessions[current_session].target_soc
    /\ (/\ SessionActive
        /\ sessions[current_session].target_soc = charge_limit
        /\ vehicle_state'.battery_soc > vehicle_state.battery_soc)
        => vehicle_state'.battery_soc <= charge_limit

C22_ChargeLimit ==
    [][LimitRejected /\ LimitStored /\ LimitRetargets /\ LoopHonoursLimit]_vars

\* C23: no session is in the history twice, and the step that ends a
\* finalization (stop_charging or the auto-completion clearing
\* current_session) leaves the session it finalized in the history once.
Occurrences(file, s) == Cardinality({i \in 1..Len(file) : file[i] = s})

C23_ArchivedOnce ==
    [][/\ \A s \in DOMAIN sessions : Occurrences(sessions_file', s) <= 1
       /\ (current_session # NoSession /\ current_session' = NoSession)
            => Occurrences(sessions_file', current_session) = 1]_vars

\* C24: the history never holds more than 50 sessions, and every change of
\* it appends one finalized session at the end, keeps the others in their
\* order, and drops exactly the oldest one when there were already 50.
C24_HistoryCap ==
    [][/\ Len(sessions_file') <= 50
       /\ sessions_file' # sessions_file
            => LET n == Len(sessions_file)
                   m == Len(sessions_file')
               IN /\ m = Min(n + 1, 50)
                  /\ \A i \in 1..(m - 1) : sessions_file'[i] = sessions_file[i + n + 1 - m]
                  /\ sessions_file'[m] \in DOMAIN sessions
                  /\ ~sessions[sessions_file'[m]].is_active
                  /\ sessions[sessions_file'[m]].end_time # NoTime]_vars

\* the commands of the integration test and the lock status each leaves
LockSequence == <<"LOCK", "UNLOCK", "LOCK">>

LockStatusAfter == <<"LOCKED", "UNLOCKED", "LOCKED">>

\* the first n commands submitted are the first n of LockSequence and none
\* of them was failed by the success_rate draw
FollowsLockSequence(cs, n) ==
    /\ Len(cs) = n
    /\ \A i \in 1..n : /\ cs[i].command_type = LockSequence[i]
                        /\ cs[i].error_message # "Simulated failure"

\* C25: with every command succeeding and submitted one after another on an
\* initially UNLOCKED vehicle, LOCK, UNLOCK, LOCK each end SUCCESS and leave
\* lock_status LOCKED, UNLOCKED, LOCKED; across any sequence of commands
\* lock_timestamp never decreases and changes only in the execution of a
\* LOCK or UNLOCK, which then ends SUCCESS.
C25_LockSequence ==
    [][/\ \A n \in 1..3 :
            (FollowsLockSequence(commands', n) /\ thread'[1].pc = "idle")
                => /\ commands'[n].status = "SUCCESS"
                   /\ vehicle_state'.lock_status = LockStatusAfter[n]
       /\ vehicle_state'.lock_timestamp >= vehicle_state.lock_timestamp
       /\ vehicle_state'.lock_timestamp # vehicle_state.lock_timestamp
            => \E k \in Threads :
                    /\ thread[k].pc = "lock_timestamp"
                    /\ Cmd(k).command_type \in {"LOCK", "UNLOCK"}
                    /\ thread'[k].pc = "finish"
       /\ \A k \in Threads :
            (thread[k].pc = "finish" /\ thread'[k].pc # "finish")
                => commands'[thread[k].command].status = "SUCCESS"]_vars

\* the third command of the sequence has returned and the lock was stamped
\* three times
C25_Witness ==
    /\ FollowsLockSequence(commands, 3)
    /\ thread[1].pc = "idle"
    /\ commands[3].status = "SUCCESS"
    /\ vehicle_state.lock_status = "LOCKED"
    /\ vehicle_state.lock_timestamp > 1

\* the step is taken by a thread that is executing a command of the type
ExecutionStep(k, type) ==
    /\ InExecution(k)
    /\ thread[k].command # NoCommand
    /\ Cmd(k).command_type = type
    /\ thread'[k] # thread[k]

Framed(vs, type) ==
    [vs EXCEPT !.last_updated = 0,
               !.battery_soc = IF type = "CLIMATE_ON" THEN 0 ELSE @]

Seats == {"front_left", "front_right", "rear"}

Positions == {"front", "rear"}

\* the row of the transition table for command c, applied to VehicleState vs;
\* stamp is the refreshed lock_timestamp
TableEffect(vs, c, stamp) ==
    LET t == c.command_type
        p == c.parameters
    IN CASE t = "LOCK" -> [vs EXCEPT !.lock_status = "LOCKED", !.lock_timestamp = stamp]
         [] t = "UNLOCK" -> [vs EXCEPT !.lock_status = "UNLOCKED", !.lock_timestamp = stamp]
         [] t = "CLIMATE_ON" ->
                [vs EXCEPT !.climate_on = TRUE, !.climate_settings.is_active = TRUE,
                           !.climate_settings.target_temp_celsius =
                                IF "target_temp" \in DOMAIN p THEN p["target_temp"] ELSE @]
         [] t = "CLIMATE_OFF" ->
                [vs EXCEPT !.climate_on = FALSE, !.climate_settings.is_active = FALSE]
         [] t = "SET_TEMP" ->
                [vs EXCEPT !.climate_settings.target_temp_celsius = p["target_temp"]]
         [] t = "SEAT_HEAT" ->
                IF p["seat"] = "front_left"
                THEN [vs EXCEPT !.climate_settings.front_left_seat_heat = p["level"]]
                ELSE IF p["seat"] = "front_right"
                THEN [vs EXCEPT !.climate_settings.front_right_seat_heat = p["level"]]
                ELSE [vs EXCEPT !.climate_settings.rear_seat_heat = p["level"]]
         [] t = "STEERING_HEAT" ->
                [vs EXCEPT !.climate_settings.steering_wheel_heat = p["enabled"]]
         [] t = "DEFROST" ->
                IF p["position"] = "front"
                THEN [vs EXCEPT !.climate_settings.front_defrost = p["enabled"]]
                ELSE [vs EXCEPT !.climate_settings.rear_defrost = p["enabled"]]
         [] t = "TRUNK_OPEN" -> [vs EXCEPT !.trunk_status.rear_trunk_open = TRUE]
         [] t = "FRUNK_OPEN" -> [vs EXCEPT !.trunk_status.front_trunk_open = TRUE]
         [] t = "HONK_FLASH" -> vs

\* the command names the seat or the position its row of the table sets
NamesTarget(c) ==
    /\ c.command_type = "SEAT_HEAT" => c.parameters["seat"] \in Seats
    /\ c.command_type = "DEFROST" => c.parameters["position"] \in Positions

\* C27: a command that ends SUCCESS has applied exactly the effect its type
\* has in the transition table and changed no other VehicleState field,
\* apart from last_updated, and battery_soc for CLIMATE_ON: the state it
\* leaves is the state it found with the row of its type applied.
C27_ExactEffect ==
    [][\A k \in Threads :
            (thread[k].pc = "finish" /\ thread'[k].pc # "finish")
                => LET c == Cmd(k)
                   IN /\ commands'[thread[k].command].status = "SUCCESS"
                      /\ NamesTarget(c)
                      /\ Framed(vehicle_state', c.command_type)
                            = Framed(TableEffect(thread[k].began, c,
                                                 vehicle_state'.lock_timestamp),
                                     c.command_type)]_vars

\* C28: after stop_charging returns, the background loop of the stopped
\* session performs no further write to battery_soc or to any session, also
\* when a start_charging follows immediately.
C28_LoopQuietAfterStop ==
    [][\A l \in DOMAIN loops :
            (loops[l].stopped /\ loops'[l] # loops[l])
                => /\ vehicle_state'.battery_soc = vehicle_state.battery_soc
                   /\ sessions' = sessions]_vars

\* a start_charging call has created the session and not yet started its
\* loop, or a stop_charging call is finalizing it
Finalizing == \E c \in Clients : client[c].pc = "start_thread" \/ StopInProgress(c)

\* C29: whatever happens to the charging loop during a tick, the session is
\* not left active with no loop running: whenever current_session is active
\* and no start_charging or stop_charging call is at work on it, a
\* background loop is alive.
C29_ActiveHasLoop ==
    (SessionActive /\ ~Finalizing) => \E l \in DOMAIN loops : LoopAlive(l)

\* the step leaves command c in status TIMEOUT and c is new or was changed
BecomesTimeout(c) ==
    /\ commands'[c].status = "TIMEOUT"
    /\ c \in DOMAIN commands => commands'[c] # commands[c]

\* C30: no send_command or cancel_command step leaves a command in status
\* TIMEOUT: every command the dispatcher executes ends SUCCESS or FAILED,
\* and a command becomes TIMEOUT only in a mark_timeout(t) call, which is no
\* step of a service thread and sets response_time to t and error_message to
\* "Command timed out after <t>ms".
C30_TimeoutOnlyExplicit ==
    [][/\ \A k \in Threads :
            (InExecution(k) /\ thread'[k].pc = "clear_executing")
                => commands'[thread[k].command].status \in {"SUCCESS", "FAILED"}
       /\ \A c \in DOMAIN commands' :
            BecomesTimeout(c)
                => /\ thread' = thread
                   /\ commands'[c].response_time = TimeoutMs
                   /\ commands'[c].error_message = "Command timed out after 5000ms"]_vars

\* a command that went through send_command was timed out by its holder,
\* and the dispatcher has ended a command SUCCESS or FAILED
C30_Witness ==
    \E c \in DOMAIN commands :
        /\ commands[c].status = "TIMEOUT"
        /\ commands[c].response_time = TimeoutMs
        /\ c \in command_history
        /\ \E d \in DOMAIN commands : commands[d].status \in {"SUCCESS", "FAILED"}

\* the climate settings a CLIMATE_ON command leaves: active, with the target
\* temperature of the command when it gives one
Activated(cs, c) ==
    [cs EXCEPT !.is_active = TRUE,
               !.target_temp_celsius =
                    IF "target_temp" \in DOMAIN c.parameters
                    THEN c.parameters["target_temp"] ELSE @]

\* (10-minute drain estimate) x (delay_ms / 1000) / 600, in 1/10000 percent
ProportionalDrain(estimate, delay_ms) == (estimate * 100 * delay_ms) \div 600000

C32_AcceptedCompletes ==
    \A id \in 1..MaxCmds :
        (id \in command_history)
            ~> (id \in DOMAIN commands /\ commands[id].status \in {"SUCCESS", "FAILED"})

\* the step applies the state transition of the command thread k holds
Applies(k) ==
    /\ thread[k].pc = "sample"
    /\ thread'[k].pc \in {"lock_timestamp", "climate_active", "finish"}

\* C33: whenever a command's state transition is applied, the validation
\* rule of its type holds in the VehicleState at that moment: LOCK is never
\* applied to a LOCKED vehicle, UNLOCK never to an UNLOCKED one, CLIMATE_ON
\* never while climate is on or battery_soc < 10, TRUNK_OPEN and FRUNK_OPEN
\* never while speed > 0.
C33_ValidWhenApplied ==
    [][\A k \in Threads :
            Applies(k)
                => LET t == Cmd(k).command_type
                   IN /\ t = "LOCK" => vehicle_state.lock_status # "LOCKED"
                      /\ t = "UNLOCK" => vehicle_state.lock_status # "UNLOCKED"
                      /\ t = "CLIMATE_ON" => /\ ~vehicle_state.climate_on
                                             /\ vehicle_state.battery_soc >= Percent(10)
                      /\ t \in {"TRUNK_OPEN", "FRUNK_OPEN"}
                            => vehicle_state.speed_mph <= 0]_vars

\* the step is the normal return of the send_command call of thread k
ReturnsNormally(k) ==
    /\ thread[k].pc \in {"check_size", "dequeue", "next"}
    /\ thread'[k].pc = "idle"

Executes(k) == InExecution(k) /\ thread[k].pc # "set_executing"

\* no thread is between dequeuing a command and clearing the slot
NoneExecuting ==
    \A k \in Threads : ~InExecution(k) /\ thread[k].pc # "clear_executing"

\* C35: the executing slot tracks execution exactly, for every interleaving
\* of concurrent send_command calls: get_executing() returns command c
\* while c is dequeued and not yet marked SUCCESS or FAILED, and None when no
\* command is being executed.
C35_ExecutingSlot ==
    /\ \A k \in Threads : Executes(k) => executing = thread[k].command
    /\ NoneExecuting => executing = NoCommand

\* C36: a charging-loop tick never lowers battery_soc: the value a tick
\* computes and writes is at least the battery_soc it read in that tick, for
\* every interleaving with set_charge_limit.
C36_TickNeverLowers ==
    [][\A l \in DOMAIN loops :
            (loops[l].pc = "tick" /\ loops'[l].pc = "write")
                => loops'[l].new_soc >= vehicle_state.battery_soc]_vars

\* no thread is between the two assignments of a CLIMATE_ON or CLIMATE_OFF
\* transition
BetweenCommands == \A k \in Threads : thread[k].pc # "climate_active"

\* C37: starting with climate_on equal to climate_settings.is_active, every
\* state reached after any sequence of dispatched commands, whether they end
\* SUCCESS, fail by simulated failure or fail by an exception during the
\* transition, keeps climate_on equal to climate_settings.is_active.
C37_ClimateFlagsAgree ==
    BetweenCommands
        => vehicle_state.climate_on = vehicle_state.climate_settings.is_active

====
